---- MODULE Spec2Model ----
(***************************************************************************)
(* A model of the omegga-chunks plugin (src/src/main.rs): the grid mapper  *)
(* (pos_to_chunk, chunk_center, chunk_corner), the cost aggregator         *)
(* (From<SaveData> for AnalyzedSave), the marker synthesizer (mark_chunks) *)
(* and the dispatch loop with its per-command tasks (main, run_command).   *)
(***************************************************************************)
EXTENDS Integers, Sequences, FiniteSets, TLC

(***************************************************************************)
(* Program constants.                                                      *)
(***************************************************************************)
CHUNK_SIZE == 512
COLLIDER_LIMIT == 65000
COMPONENT_LIMIT == 75

I32Max == 2147483647
I32Min == (-2147483647) - 1

(***************************************************************************)
(* Bounds of the model.                                                    *)
(***************************************************************************)
\* Positions are taken within one unit of the cell boundaries m * CHUNK_SIZE,
\* m in -PosSpan..PosSpan, plus the two ends of the i32 range.
PosSpan == 1

PosVals ==
    {m * CHUNK_SIZE + d : m \in (-PosSpan)..PosSpan, d \in {-1, 0, 1}}
        \cup {I32Min, I32Max}

(***************************************************************************)
(* Grid mapper.                                                            *)
(***************************************************************************)
\* `n as f64 / CHUNK_SIZE as f64`: an i32 converts to f64 exactly and the
\* quotient by 512 = 2^9 only changes the exponent, so the f64 holds the exact
\* rational a / b; it is kept as numerator and denominator.
F64Div(a, b) == [num |-> a, den |-> b]

\* f64::floor: the largest integer not above the value (den > 0; \div of the
\* Integers module rounds toward minus infinity).
F64Floor(q) == q.num \div q.den

\* `x as i32` of an integral f64: saturating.
AsI32(x) == IF x > I32Max THEN I32Max ELSE IF x < I32Min THEN I32Min ELSE x

\* A plausible slip: integer division n / CHUNK_SIZE, which truncates toward 0.
round_truncating(n) ==
    IF n >= 0 \/ n % CHUNK_SIZE = 0
    THEN n \div CHUNK_SIZE
    ELSE (n \div CHUNK_SIZE) + 1

\* fn round(n: i32) -> i32, local to pos_to_chunk.
round(n) == AsI32(F64Floor(F64Div(n, CHUNK_SIZE)))

pos_to_chunk(pos) == <<round(pos[1]), round(pos[2]), round(pos[3])>>

\* A plausible slip: the first line copied to the other two axes unchanged.
chunk_center_copied(pos) ==
    << CHUNK_SIZE \div 2 + pos[1] * CHUNK_SIZE,
       CHUNK_SIZE \div 2 + pos[1] * CHUNK_SIZE,
       CHUNK_SIZE \div 2 + pos[1] * CHUNK_SIZE >>

\* The i32 arithmetic of chunk_center does not overflow exactly for the keys
\* pos_to_chunk produces from i32 positions, which are the only keys the
\* program ever passes to it.
chunk_center(pos) ==
    << CHUNK_SIZE \div 2 + pos[1] * CHUNK_SIZE,
       CHUNK_SIZE \div 2 + pos[2] * CHUNK_SIZE,
       CHUNK_SIZE \div 2 + pos[3] * CHUNK_SIZE >>

\* A plausible slip: the inset of one unit left out on the low side.
CHUNK_CORNERS_low_on_face ==
    << << (-CHUNK_SIZE) \div 2, (-CHUNK_SIZE) \div 2, (-CHUNK_SIZE) \div 2 >>,
       << CHUNK_SIZE \div 2 - 1, (-CHUNK_SIZE) \div 2, (-CHUNK_SIZE) \div 2 >>,
       << (-CHUNK_SIZE) \div 2, CHUNK_SIZE \div 2 - 1, (-CHUNK_SIZE) \div 2 >>,
       << CHUNK_SIZE \div 2 - 1, CHUNK_SIZE \div 2 - 1, (-CHUNK_SIZE) \div 2 >>,
       << (-CHUNK_SIZE) \div 2, (-CHUNK_SIZE) \div 2, CHUNK_SIZE \div 2 - 1 >>,
       << CHUNK_SIZE \div 2 - 1, (-CHUNK_SIZE) \div 2, CHUNK_SIZE \div 2 - 1 >>,
       << (-CHUNK_SIZE) \div 2, CHUNK_SIZE \div 2 - 1, CHUNK_SIZE \div 2 - 1 >>,
       << CHUNK_SIZE \div 2 - 1, CHUNK_SIZE \div 2 - 1, CHUNK_SIZE \div 2 - 1 >> >>

\* CHUNK_CORNERS[i], i in 0..7 (the tuple is indexed from 1).
CHUNK_CORNERS ==
    << << (-CHUNK_SIZE) \div 2 + 1, (-CHUNK_SIZE) \div 2 + 1, (-CHUNK_SIZE) \div 2 + 1 >>,
       << CHUNK_SIZE \div 2 - 1,    (-CHUNK_SIZE) \div 2 + 1, (-CHUNK_SIZE) \div 2 + 1 >>,
       << (-CHUNK_SIZE) \div 2 + 1, CHUNK_SIZE \div 2 - 1,    (-CHUNK_SIZE) \div 2 + 1 >>,
       << CHUNK_SIZE \div 2 - 1,    CHUNK_SIZE \div 2 - 1,    (-CHUNK_SIZE) \div 2 + 1 >>,
       << (-CHUNK_SIZE) \div 2 + 1, (-CHUNK_SIZE) \div 2 + 1, CHUNK_SIZE \div 2 - 1 >>,
       << CHUNK_SIZE \div 2 - 1,    (-CHUNK_SIZE) \div 2 + 1, CHUNK_SIZE \div 2 - 1 >>,
       << (-CHUNK_SIZE) \div 2 + 1, CHUNK_SIZE \div 2 - 1,    CHUNK_SIZE \div 2 - 1 >>,
       << CHUNK_SIZE \div 2 - 1,    CHUNK_SIZE \div 2 - 1,    CHUNK_SIZE \div 2 - 1 >> >>

\* A plausible slip: the z offset taken from the x column of the table.
chunk_corner_flat(i, center) ==
    << center[1] + CHUNK_CORNERS[i + 1][1],
       center[2] + CHUNK_CORNERS[i + 1][2],
       center[3] + CHUNK_CORNERS[i + 1][1] >>

chunk_corner(i, center) ==
    << center[1] + CHUNK_CORNERS[i + 1][1],
       center[2] + CHUNK_CORNERS[i + 1][2],
       center[3] + CHUNK_CORNERS[i + 1][3] >>

(***************************************************************************)
(* Option<T>: NoneOpt, or Some(v).                                         *)
(***************************************************************************)
NoneOpt == << >>
Some(v) == <<v>>
IsSome(o) == o # NoneOpt
Unwrap(o) == o[1]

(***************************************************************************)
(* Cost aggregator: impl From<SaveData> for AnalyzedSave.                  *)
(***************************************************************************)
\* The contents of colliders.json, a configuration file outside the
\* repository, taken to be present and well-formed: asset name -> collider
\* count.
BRICK_COLLIDERS == [a \in {"PB_DefaultRamp"} |-> 3]

\* header2.brick_assets of the snapshots of the model.
BrickAssets == <<"PB_DefaultBrick", "PB_DefaultRamp">>

\* A plausible slip: and_modify overwrites the collider sum instead of adding.
EntryAndModify_overwrite(c, collider_count, component_count) ==
    <<c[1] + 1, collider_count, c[3] + component_count>>

\* A plausible slip: the component count is not accumulated.
EntryAndModify_no_components(c, collider_count, component_count) ==
    <<c[1] + 1, c[2] + collider_count, c[3]>>

\* The and_modify closure. The u32 sums of the model stay far below 2^32.
EntryAndModify(c, collider_count, component_count) ==
    <<c[1] + 1, c[2] + collider_count, c[3] + component_count>>

\* A plausible slip: the inserted entry starts at a count of 0.
EntryOrInsert_zero(collider_count, component_count) ==
    <<0, collider_count, component_count>>

\* or_insert((1, collider_count, component_count)): the entry of a new chunk.
EntryOrInsert(collider_count, component_count) ==
    <<1, collider_count, component_count>>

\* One iteration of the loop over data.bricks.
FromStep(map, data, brick) ==
    LET chunk_pos == pos_to_chunk(brick.position)
        asset == data.brick_assets[brick.asset_name_index + 1]
        collider_count ==
            IF asset \in DOMAIN BRICK_COLLIDERS THEN BRICK_COLLIDERS[asset] ELSE 1
        component_count == Cardinality(brick.components)
    IN  IF chunk_pos \in DOMAIN map
        THEN [map EXCEPT ![chunk_pos] =
                  EntryAndModify(@, collider_count, component_count)]
        ELSE [k \in DOMAIN map \cup {chunk_pos} |->
                  IF k = chunk_pos
                  THEN EntryOrInsert(collider_count, component_count)
                  ELSE map[k]]

RECURSIVE FromLoop(_, _, _)
FromLoop(map, data, i) ==
    IF i > Len(data.bricks)
    THEN map
    ELSE FromLoop(FromStep(map, data, data.bricks[i]), data, i + 1)

\* AnalyzedSave::from(data): the chunk_colliders map.
From(data) == [chunk_colliders |-> FromLoop(<< >>, data, 1)]

(***************************************************************************)
(* Marker synthesizer: mark_chunks.                                        *)
(***************************************************************************)
MARKER_OWNER_UUID == "00000000-0000-0000-0000-000000000001"

MARKER_COLORS ==
    << [r |-> 255, g |-> 255, b |-> 255, a |-> 255],
       [r |-> 0,   g |-> 255, b |-> 0,   a |-> 255],
       [r |-> 255, g |-> 0,   b |-> 0,   a |-> 255],
       [r |-> 0,   g |-> 0,   b |-> 255, a |-> 255],
       [r |-> 255, g |-> 0,   b |-> 255, a |-> 255] >>

\* A plausible slip: a budget counts as exceeded when it is reached.
col_nonstrict(opt) ==
    IF IsSome(opt) /\ Unwrap(opt)[2] >= COLLIDER_LIMIT
                   /\ Unwrap(opt)[3] >= COMPONENT_LIMIT THEN 4
    ELSE IF IsSome(opt) /\ Unwrap(opt)[3] >= COMPONENT_LIMIT THEN 3
    ELSE IF IsSome(opt) /\ Unwrap(opt)[2] >= COLLIDER_LIMIT THEN 2
    ELSE IF IsSome(opt) /\ Unwrap(opt)[2] < COLLIDER_LIMIT THEN 1
    ELSE 0

\* `let col = match opt { ... }`: the arms in order, the first match wins.
col(opt) ==
    IF IsSome(opt) /\ Unwrap(opt)[2] > COLLIDER_LIMIT
                   /\ Unwrap(opt)[3] > COMPONENT_LIMIT THEN 4
    ELSE IF IsSome(opt) /\ Unwrap(opt)[3] > COMPONENT_LIMIT THEN 3
    ELSE IF IsSome(opt) /\ Unwrap(opt)[2] > COLLIDER_LIMIT THEN 2
    ELSE IF IsSome(opt) /\ Unwrap(opt)[2] <= COLLIDER_LIMIT THEN 1
    ELSE 0

\* The Brick pushed for corner i of a chunk.
MarkerBrick(c, i, center) ==
    [ owner_index |-> 1,
      asset_name_index |-> 0,
      material_index |-> 0,
      material_intensity |-> 5,
      color |-> MARKER_COLORS[c + 1],
      size |-> <<1, 1, 1>>,
      position |-> chunk_corner(i, center) ]

\* One iteration of the loop over chunks: the 8 bricks of the entry.
MarkStep(bricks, entry) ==
    LET center == chunk_center(entry[1])
        c == col(entry[2])
    IN  bricks \o [n \in 1..8 |-> MarkerBrick(c, n - 1, center)]

RECURSIVE MarkLoop(_, _, _)
MarkLoop(bricks, chunks, j) ==
    IF j > Len(chunks)
    THEN bricks
    ELSE MarkLoop(MarkStep(bricks, chunks[j]), chunks, j + 1)

\* mark_chunks(chunks), chunks a sequence of <<pos, Option<stats>>>.
mark_chunks(chunks) ==
    [ brick_assets |-> <<"PB_DefaultMicroBrick">>,
      materials |-> <<"BMC_Glow">>,
      brick_owners |-> << [id |-> MARKER_OWNER_UUID, name |-> "Chunk Marker",
                           bricks |-> 0] >>,
      bricks |-> MarkLoop(<< >>, chunks, 1) ]

(***************************************************************************)
(* The plugin: host events, configuration, tasks.                          *)
(***************************************************************************)
\* The number of command tasks that can be alive at once; the slot of a task
\* that has ended is taken by the next command.
MaxTasks == 2

Tasks == 1..MaxTasks

SAVE_NAME == "_omegga_chunks"

\* The `config` values of Init events: JSON null, a Config object, and a value
\* that is no Config.
JsonNull == [kind |-> "null"]
JsonConfig == [kind |-> "object",
               authorized |-> << [name |-> "ALICE", id |-> "a-1"] >>]
JsonBad == [kind |-> "number"]
ConfigValues == {JsonNull, JsonConfig, JsonBad}

\* serde_json::from_value::<Option<Config>>(v).
from_value(v) ==
    IF v.kind = "null" THEN [ok |-> TRUE, val |-> NoneOpt]
    ELSE IF v.kind = "object"
         THEN [ok |-> TRUE, val |-> Some([authorized |-> v.authorized])]
         ELSE [ok |-> FALSE, val |-> NoneOpt]

Players == {"Alice", "Bob"}
ArgLists ==
    { << >>, <<"analyze">>, <<"in">>, <<"count">>, <<"mark">>, <<"markall">>,
      <<"clear">>, <<"Count">> }

\* The Command events: /chunks of any player with any arguments, and one
\* command of another name.
CommandEvents ==
    {<<p, "chunks", a>> : p \in Players, a \in ArgLists}
        \cup {<<"Alice", "help", << >> >>}
\* str::to_lowercase on the names of the model.
to_lowercase(s) ==
    CASE s = "Alice" -> "alice"
      [] s = "ALICE" -> "alice"
      [] s = "Bob" -> "bob"
      [] OTHER -> s

\* A plausible slip: the subcommand matched without regard to case.
as_str_lowercased(command) ==
    IF command = "Count" THEN "count" ELSE command

\* `match command.as_str()`: the subcommand as it was typed.
as_str(command) == command

\* A plausible slip: the names compared as they are.
authorized_case_sensitive(cfg, u) ==
    \E i \in 1..Len(cfg.authorized) : cfg.authorized[i].name = u

\* config.authorized.iter().any(|u| u.name.to_lowercase() == user.to_lowercase())
authorized(cfg, u) ==
    \E i \in 1..Len(cfg.authorized) :
        to_lowercase(cfg.authorized[i].name) = to_lowercase(u)

\* The worlds a snapshot can capture: no brick at all, or two bricks in chunk
\* (0,0,0) and one in chunk (-1,-1,-1).
Worlds ==
    { [brick_assets |-> BrickAssets, bricks |-> << >>],
      [brick_assets |-> BrickAssets,
       bricks |-> << [position |-> <<0, 0, 0>>, asset_name_index |-> 0,
                      components |-> {}],
                     [position |-> <<511, 0, 0>>, asset_name_index |-> 1,
                      components |-> {"Interact", "PointLight"}],
                     [position |-> <<-1, -1, -1>>, asset_name_index |-> 0,
                      components |-> {"Interact"}] >>] }

\* Player positions as get_player_position reports them, with integral
\* coordinates (on which `as i32` is exact): one in chunk (0,0,0), one in
\* chunk (1,0,0).
PlayerPositions == {<<0, 0, 0>>, <<600, 0, 0>>}

\* The orders in which a HashMap with the keys S can iterate.
Orderings(S) ==
    {f \in [1..Cardinality(S) -> S] :
        \A i, j \in 1..Cardinality(S) : f[i] = f[j] => i = j}

\* A plausible slip: the result of save_bricks is ignored.
save_failed_ignored(result) == FALSE

\* `if let Err(_) = omegga.save_bricks(SAVE_NAME).await`
save_failed(result) == result[1] = "err"

(***************************************************************************)
(* State.                                                                  *)
(***************************************************************************)
VARIABLES
    gPc,        \* grid mapper: which of its functions has been applied
    gPos,       \* a world position (i32, i32, i32)
    gKey,       \* pos_to_chunk(gPos)
    gCenter,    \* chunk_center(gKey)
    gBack,      \* pos_to_chunk(gCenter)
    gCorners,   \* chunk_corner(i, gCenter) for i = 0..7, in that order
    aPc,        \* aggregator: which of the two lists has been aggregated
    aData,      \* a SaveData
    aPerm,      \* the same SaveData with its bricks permuted
    aOut,       \* AnalyzedSave::from(aData)
    aOutPerm,   \* AnalyzedSave::from(aPerm)
    mPc,        \* marker synthesizer: whether mark_chunks has been applied
    mChunks,    \* the slice passed to mark_chunks
    mOut,       \* mark_chunks(mChunks)
    mainPc,         \* main: "recv", "init_wait" (in config.write().await), "panicked"
    pendingInit,    \* the `config` value of the Init event being handled
    config,         \* Option<Config> inside the config RwLock
    cfgReaders,     \* the tasks holding a read guard of the config RwLock
    analyzed_save,  \* Option<AnalyzedSave> inside the analyzed_save RwLock
    saveReaders,    \* the tasks holding a read guard of the analyzed_save RwLock
    saveQueue,      \* the tasks waiting for the analyzed_save RwLock, first come first
    disk,           \* the snapshot file named SAVE_NAME: Option<SaveData>
    pc,             \* per task: the await it is suspended in, or how it ended
    user,           \* per task: run_command's `user`
    args,           \* per task: run_command's `args`
    config_read,    \* per task: what `config_read` dereferences to
    data,           \* per task: analyze's `data`
    msgs,           \* per task: the omegga.whisper calls it made, in order
    calls,          \* per task: the host calls it awaited or sent, with results
    errors,         \* per task: the omegga.error calls of its spawn wrapper
    replaced,       \* per task: whether it has replaced the analyzed save
    snapshot        \* per task, while it analyzes: the snapshot its save_bricks wrote

gridVars == <<gPc, gPos, gKey, gCenter, gBack, gCorners>>
aggVars == <<aPc, aData, aPerm, aOut, aOutPerm>>
markVars == <<mPc, mChunks, mOut>>
mainVars == <<mainPc, pendingInit, config>>
lockVars == <<cfgReaders, saveReaders, saveQueue>>
taskVars ==
    <<pc, user, args, config_read, data, msgs, calls, errors, replaced, snapshot>>
sysVars == <<mainVars, lockVars, analyzed_save, disk, taskVars>>
vars == <<gridVars, aggVars, markVars, sysVars>>

Zero3 == <<0, 0, 0>>
EmptySave == [brick_assets |-> BrickAssets, bricks |-> << >>]
EmptyAnalyzed == [chunk_colliders |-> << >>]

SeqsUpTo(S, n) == UNION {[1..k -> S] : k \in 0..n}

GridIdle ==
    /\ gPc = "idle"
    /\ gPos = Zero3
    /\ gKey = Zero3
    /\ gCenter = Zero3
    /\ gBack = Zero3
    /\ gCorners = << >>

AggIdle ==
    /\ aPc = "idle"
    /\ aData = EmptySave
    /\ aPerm = EmptySave
    /\ aOut = EmptyAnalyzed
    /\ aOutPerm = EmptyAnalyzed

MarkIdle ==
    /\ mPc = "idle"
    /\ mChunks = << >>
    /\ mOut = mark_chunks(<< >>)

SysIdle ==
    /\ mainPc = "idle"
    /\ pendingInit = JsonNull
    /\ config = NoneOpt
    /\ cfgReaders = {}
    /\ analyzed_save = NoneOpt
    /\ saveReaders = {}
    /\ saveQueue = << >>
    /\ disk = NoneOpt
    /\ pc = [t \in Tasks |-> "unborn"]
    /\ user = [t \in Tasks |-> ""]
    /\ args = [t \in Tasks |-> << >>]
    /\ config_read = [t \in Tasks |-> NoneOpt]
    /\ data = [t \in Tasks |-> NoneOpt]
    /\ msgs = [t \in Tasks |-> << >>]
    /\ calls = [t \in Tasks |-> << >>]
    /\ errors = [t \in Tasks |-> << >>]
    /\ replaced = [t \in Tasks |-> FALSE]
    /\ snapshot = [t \in Tasks |-> NoneOpt]

(***************************************************************************)
(* The grid mapper applied to a position: pos_to_chunk, chunk_center of    *)
(* the key, pos_to_chunk of that centre, and the 8 corners around it.      *)
(***************************************************************************)
GridInit ==
    /\ gPc = "pos"
    /\ gPos \in PosVals \X PosVals \X PosVals
    /\ gKey = Zero3
    /\ gCenter = Zero3
    /\ gBack = Zero3
    /\ gCorners = << >>
    /\ AggIdle
    /\ MarkIdle
    /\ SysIdle

GridToChunk ==
    /\ gPc = "pos"
    /\ gKey' = pos_to_chunk(gPos)
    /\ gPc' = "key"
    /\ UNCHANGED <<gPos, gCenter, gBack, gCorners, aggVars, markVars, sysVars>>

GridCenter ==
    /\ gPc = "key"
    /\ gCenter' = chunk_center(gKey)
    /\ gPc' = "center"
    /\ UNCHANGED <<gPos, gKey, gBack, gCorners, aggVars, markVars, sysVars>>

GridBack ==
    /\ gPc = "center"
    /\ gBack' = pos_to_chunk(gCenter)
    /\ gPc' = "back"
    /\ UNCHANGED <<gPos, gKey, gCenter, gCorners, aggVars, markVars, sysVars>>

\* The loop `for i in 0..8` of mark_chunks: chunk_corner(i, center).
GridCorners ==
    /\ gPc = "back"
    /\ gCorners' = [n \in 1..8 |-> chunk_corner(n - 1, gCenter)]
    /\ gPc' = "corners"
    /\ UNCHANGED <<gPos, gKey, gCenter, gBack, aggVars, markVars, sysVars>>

GridNext == GridToChunk \/ GridCenter \/ GridBack \/ GridCorners

SpecGrid == GridInit /\ [][GridNext]_vars

(***************************************************************************)
(* The aggregator applied to a brick list and to a permutation of it.      *)
(***************************************************************************)
\* The longest brick list of the aggregator's inputs.
MaxBricks == 3

\* Bricks in two chunks, (0,0,0) twice and (-1,-1,-1), of an asset absent
\* from the collider table without components or of a tabled asset with two.
AggBricks ==
    { [position |-> p, asset_name_index |-> k[1], components |-> k[2]] :
        p \in {<<-1, -1, -1>>, Zero3, <<511, 0, 0>>},
        k \in {<<0, {}>>, <<1, {"Interact", "PointLight"}>>} }

Perms(n) == {f \in [1..n -> 1..n] : \A i, j \in 1..n : f[i] = f[j] => i = j}

AggInit ==
    /\ aPc = "start"
    /\ \E bricks \in SeqsUpTo(AggBricks, MaxBricks) :
         \E f \in Perms(Len(bricks)) :
            /\ aData = [brick_assets |-> BrickAssets, bricks |-> bricks]
            /\ aPerm = [brick_assets |-> BrickAssets,
                        bricks |-> [i \in 1..Len(bricks) |-> bricks[f[i]]]]
    /\ aOut = EmptyAnalyzed
    /\ aOutPerm = EmptyAnalyzed
    /\ GridIdle
    /\ MarkIdle
    /\ SysIdle

AggFrom ==
    /\ aPc = "start"
    /\ aOut' = From(aData)
    /\ aPc' = "first"
    /\ UNCHANGED <<aData, aPerm, aOutPerm, gridVars, markVars, sysVars>>

AggFromPerm ==
    /\ aPc = "first"
    /\ aOutPerm' = From(aPerm)
    /\ aPc' = "second"
    /\ UNCHANGED <<aData, aPerm, aOut, gridVars, markVars, sysVars>>

AggNext == AggFrom \/ AggFromPerm

SpecAgg == AggInit /\ [][AggNext]_vars

(***************************************************************************)
(* The marker synthesizer applied to a list of entries.                    *)
(***************************************************************************)
\* The longest entry list of the synthesizer's inputs.
MaxEntries == 2

\* Keys are those pos_to_chunk gives, the two ends of the i32 range included.
MarkKeys ==
    { pos_to_chunk(p) : p \in {Zero3, <<-1, -1, -1>>, <<I32Max, I32Min, 512>>} }

\* Statistics at, just above and below the two budgets.
MarkStats ==
    { <<1, ph, co>> : ph \in {100, COLLIDER_LIMIT, COLLIDER_LIMIT + 1},
                      co \in {1, COMPONENT_LIMIT, COMPONENT_LIMIT + 1} }

MarkEntries == MarkKeys \X ({NoneOpt} \cup {Some(st) : st \in MarkStats})

MarkInit ==
    /\ mPc = "start"
    /\ mChunks \in SeqsUpTo(MarkEntries, MaxEntries)
    /\ mOut = mark_chunks(<< >>)
    /\ GridIdle
    /\ AggIdle
    /\ SysIdle

MarkApply ==
    /\ mPc = "start"
    /\ mOut' = mark_chunks(mChunks)
    /\ mPc' = "done"
    /\ UNCHANGED <<mChunks, gridVars, aggVars, sysVars>>

MarkNext == MarkApply

SpecMark == MarkInit /\ [][MarkNext]_vars

(***************************************************************************)
(* The dispatch loop (main) and the command tasks (run_command).           *)
(***************************************************************************)
SysInit ==
    /\ mainPc = "recv"
    /\ pendingInit = JsonNull
    /\ config = NoneOpt
    /\ cfgReaders = {}
    /\ analyzed_save = NoneOpt
    /\ saveReaders = {}
    /\ saveQueue = << >>
    /\ disk = NoneOpt
    /\ pc = [t \in Tasks |-> "unborn"]
    /\ user = [t \in Tasks |-> ""]
    /\ args = [t \in Tasks |-> << >>]
    /\ config_read = [t \in Tasks |-> NoneOpt]
    /\ data = [t \in Tasks |-> NoneOpt]
    /\ msgs = [t \in Tasks |-> << >>]
    /\ calls = [t \in Tasks |-> << >>]
    /\ errors = [t \in Tasks |-> << >>]
    /\ replaced = [t \in Tasks |-> FALSE]
    /\ snapshot = [t \in Tasks |-> NoneOpt]
    /\ GridIdle
    /\ AggIdle
    /\ MarkIdle

pureVars == <<gridVars, aggVars, markVars>>

\* A panic of main ends the process, and with it every task.
Alive == mainPc # "panicked"

Finished == {"done", "failed", "panicked"}
Free(t) == pc[t] \in Finished \cup {"unborn"}

\* Event::Init: main starts to wait for the write guard of config.
MainRecvInit(v) ==
    /\ mainPc = "recv"
    /\ mainPc' = "init_wait"
    /\ pendingInit' = v
    /\ UNCHANGED <<config, lockVars, analyzed_save, disk, taskVars, pureVars>>

\* Event::Init with the write guard: the value is deserialized and unwrapped,
\* and stored; the guard is dropped at the end of the arm. The response written
\* to the host changes nothing of the plugin.
MainInitWrite ==
    /\ mainPc = "init_wait"
    /\ cfgReaders = {}
    /\ LET r == from_value(pendingInit)
       IN  IF r.ok
           THEN /\ config' = r.val
                /\ mainPc' = "recv"
           ELSE /\ mainPc' = "panicked"
                /\ UNCHANGED config
    /\ pendingInit' = JsonNull
    /\ UNCHANGED <<lockVars, analyzed_save, disk, taskVars, pureVars>>

\* Event::Stop: an empty response is written to the host.
MainRecvStop ==
    /\ mainPc = "recv"
    /\ UNCHANGED vars

\* Event::Command: a "chunks" command spawns a task, any other is dropped.
MainRecvCommand(player, command, a) ==
    /\ mainPc = "recv"
    /\ IF command = "chunks"
       THEN \E t \in Tasks :
              /\ Free(t)
              /\ \A o \in Tasks : Free(o) => t <= o
              /\ pc' = [pc EXCEPT ![t] = "cfg_read"]
              /\ user' = [user EXCEPT ![t] = player]
              /\ args' = [args EXCEPT ![t] = a]
              /\ config_read' = [config_read EXCEPT ![t] = NoneOpt]
              /\ data' = [data EXCEPT ![t] = NoneOpt]
              /\ msgs' = [msgs EXCEPT ![t] = << >>]
              /\ calls' = [calls EXCEPT ![t] = << >>]
              /\ errors' = [errors EXCEPT ![t] = << >>]
              /\ replaced' = [replaced EXCEPT ![t] = FALSE]
              /\ snapshot' = [snapshot EXCEPT ![t] = NoneOpt]
       ELSE UNCHANGED taskVars
    /\ UNCHANGED <<mainVars, lockVars, analyzed_save, disk, pureVars>>

\* Any other event: `_ => ()`.
MainRecvOther ==
    /\ mainPc = "recv"
    /\ UNCHANGED vars

\* omegga.whisper(user, text): the text without its colour markup, and the
\* values formatted into it.
Msg(t, text, arg) == [to |-> user[t], text |-> text, arg |-> arg]
Call(op, arg) == [op |-> op, arg |-> arg, result |-> <<"pending">>]
Sent(op, arg) == [op |-> op, arg |-> arg, result |-> <<"sent">>]
Returned(cs, res) == [cs EXCEPT ![Len(cs)].result = res]

\* The task goes on to newPc having whispered newMsgs, its host calls now
\* newCalls. config_read lives to the end of run_command: a task that has
\* ended (returned, or unwound by a panic) holds no guard.
Step(t, newPc, newMsgs, newCalls) ==
    /\ pc' = [pc EXCEPT ![t] = newPc]
    /\ msgs' = [msgs EXCEPT ![t] = @ \o newMsgs]
    /\ calls' = [calls EXCEPT ![t] = newCalls]
    /\ cfgReaders' = IF newPc \in Finished
                     THEN cfgReaders \ {t}
                     ELSE cfgReaders \cup {t}

\* run_command returned Err(e): the spawn wrapper calls omegga.error.
Fail(t, e) == errors' = [errors EXCEPT ![t] = Append(@, e)]

\* run_command up to its first await after config.read(): the config check,
\* args[0], the authorization check and the start of the subcommand. A task
\* asks for the read guard after a waiting writer and waits behind it.
CfgRead(t) ==
    /\ Alive
    /\ pc[t] = "cfg_read"
    /\ mainPc # "init_wait"
    /\ config_read' = [config_read EXCEPT ![t] = config]
    /\ IF config = NoneOpt
         THEN Step(t, "done", << >>, calls[t])
       ELSE IF args[t] = << >>
         THEN Step(t, "panicked", << >>, calls[t])
       ELSE IF ~authorized(Unwrap(config), user[t])
         THEN Step(t, "done",
                   <<Msg(t, "You are not authorized to use this command!", << >>)>>,
                   calls[t])
       ELSE IF as_str(args[t][1]) = "analyze"
         THEN Step(t, "an_save", << >>, <<Call("save_bricks", <<SAVE_NAME>>)>>)
       ELSE IF as_str(args[t][1]) = "in"
         THEN Step(t, "in_pos", << >>, <<Call("get_player_position", <<user[t]>>)>>)
       ELSE IF as_str(args[t][1]) = "count"
         THEN Step(t, "cnt_read", << >>, calls[t])
       ELSE IF as_str(args[t][1]) = "mark"
         THEN Step(t, "mk_read", << >>, calls[t])
       ELSE IF as_str(args[t][1]) = "markall"
         THEN Step(t, "ma_read", << >>, calls[t])
       ELSE IF as_str(args[t][1]) = "clear"
         THEN Step(t, "done", <<Msg(t, "Chunk markers have been cleared.", << >>)>>,
                   <<Sent("clear_bricks", <<MARKER_OWNER_UUID, TRUE>>)>>)
       ELSE Step(t, "done",
                 <<Msg(t, "Unknown subcommand {}.", <<as_str(args[t][1])>>)>>,
                 calls[t])
    /\ UNCHANGED <<mainVars, saveReaders, saveQueue, analyzed_save, disk, user,
                   args, data, errors, replaced, snapshot,
                   pureVars>>

(***************************************************************************)
(* analyze                                                                 *)
(***************************************************************************)
\* save_bricks returns: on Ok the host has written the world to the snapshot
\* file and the task sleeps; on Err the task whispers and returns.
AnSaveReturn(t) ==
    /\ Alive
    /\ pc[t] = "an_save"
    /\ \/ \E w \in Worlds :
            LET res == <<"ok">>
            IN  /\ disk' = Some(w)
                /\ snapshot' = [snapshot EXCEPT ![t] = Some(w)]
                /\ IF save_failed(res)
                   THEN Step(t, "done", <<Msg(t, "Failed to save!", << >>)>>,
                             Returned(calls[t], res))
                   ELSE Step(t, "an_sleep", << >>,
                             Append(Returned(calls[t], res), Call("sleep", <<2500>>)))
       \/ LET res == <<"err">>
          IN  /\ disk' = disk
              /\ UNCHANGED snapshot
              /\ IF save_failed(res)
                 THEN Step(t, "done", <<Msg(t, "Failed to save!", << >>)>>,
                           Returned(calls[t], res))
                 ELSE Step(t, "an_sleep", << >>,
                           Append(Returned(calls[t], res), Call("sleep", <<2500>>)))
    /\ UNCHANGED <<mainVars, saveReaders, saveQueue, analyzed_save, user, args,
                   config_read, data, errors, replaced, pureVars>>

\* The 2500 ms sleep ends; get_save_path is asked.
AnSleepReturn(t) ==
    /\ Alive
    /\ pc[t] = "an_sleep"
    /\ Step(t, "an_path", << >>,
            Append(Returned(calls[t], <<"ok">>), Call("get_save_path", <<SAVE_NAME>>)))
    /\ UNCHANGED <<mainVars, saveReaders, saveQueue, analyzed_save, disk, user,
                   args, config_read, data, errors, replaced, snapshot,
                   pureVars>>

\* get_save_path returns. Err or Ok(None): whisper and return. Ok(Some(path)),
\* which needs the file: the file is opened and decoded, each step unwrapped,
\* so a failure panics; otherwise the task goes on to the write guard.
AnPathReturn(t) ==
    /\ Alive
    /\ pc[t] = "an_path"
    /\ \/ \E res \in {<<"err">>, <<"none">>} :
            /\ Step(t, "done", <<Msg(t, "Failed to find save! Try again.", << >>)>>,
                    Returned(calls[t], res))
            /\ snapshot' = [snapshot EXCEPT ![t] = NoneOpt]
            /\ UNCHANGED data
       \/ /\ IsSome(disk)
          /\ \/ /\ Step(t, "an_write", << >>, Returned(calls[t], <<"some">>))
                /\ data' = [data EXCEPT ![t] = disk]
                /\ UNCHANGED snapshot
             \/ /\ Step(t, "panicked", << >>, Returned(calls[t], <<"some">>))
                /\ snapshot' = [snapshot EXCEPT ![t] = NoneOpt]
                /\ UNCHANGED data
    /\ UNCHANGED <<mainVars, saveReaders, saveQueue, analyzed_save, disk, user,
                   args, config_read, errors, replaced, pureVars>>

(***************************************************************************)
(* The analyzed_save RwLock (tokio): first come, first served; a guard     *)
(* asked for while a writer waits is granted after that writer.            *)
(***************************************************************************)
InQueue(t) == \E i \in 1..Len(saveQueue) : saveQueue[i] = t
AtHead(t) == IF saveQueue = << >> THEN TRUE ELSE Head(saveQueue) = t
CanRead(t) == AtHead(t)

\* A plausible slip: a lock that lets the writer in beside readers.
CanWrite_beside_readers(t) == AtHead(t)

CanWrite(t) == AtHead(t) /\ saveReaders = {}
Dequeued(t) == IF InQueue(t) THEN Tail(saveQueue) ELSE saveQueue

\* A task that cannot have its guard at once joins the queue.
SaveLockWait(t) ==
    /\ Alive
    /\ ~InQueue(t)
    /\ \/ pc[t] = "an_write" /\ ~CanWrite(t)
       \/ pc[t] \in {"cnt_read", "mk_read", "ma_read"} /\ ~CanRead(t)
    /\ saveQueue' = Append(saveQueue, t)
    /\ UNCHANGED <<mainVars, cfgReaders, saveReaders, analyzed_save, disk,
                   taskVars, pureVars>>

\* analyzed_save.write().await.replace(data.into()), and the success whisper.
\* The HashMap built by From iterates in some order of its keys.
AnWrite(t) ==
    /\ Alive
    /\ pc[t] = "an_write"
    /\ CanWrite(t)
    /\ saveQueue' = Dequeued(t)
    /\ LET built == From(Unwrap(data[t]))
       IN  \E o \in Orderings(DOMAIN built.chunk_colliders) :
              analyzed_save' = Some([chunk_colliders |-> built.chunk_colliders,
                                     iter_order |-> o])
    /\ replaced' = [replaced EXCEPT ![t] = TRUE]
    /\ snapshot' = [snapshot EXCEPT ![t] = NoneOpt]
    /\ Step(t, "done",
            <<Msg(t, "The save has been analyzed. Any subsequent changes must be reanalyzed.",
                  << >>)>>,
            calls[t])
    /\ UNCHANGED <<mainVars, saveReaders, disk, user, args, config_read, data,
                   errors, pureVars>>

(***************************************************************************)
(* in                                                                      *)
(***************************************************************************)
InPosReturn(t) ==
    /\ Alive
    /\ pc[t] = "in_pos"
    /\ \/ /\ Step(t, "failed", << >>, Returned(calls[t], <<"err">>))
          /\ Fail(t, "rpc error")
       \/ /\ Step(t, "failed", << >>, Returned(calls[t], <<"none">>))
          /\ Fail(t, "player has no position")
       \/ \E pos \in PlayerPositions :
            /\ Step(t, "done", <<Msg(t, "You are in chunk {:?}.", <<pos_to_chunk(pos)>>)>>,
                    Returned(calls[t], <<"some", pos>>))
            /\ UNCHANGED errors
    /\ UNCHANGED <<mainVars, saveReaders, saveQueue, analyzed_save, disk, user,
                   args, config_read, data, replaced, snapshot,
                   pureVars>>

(***************************************************************************)
(* count, mark, markall: the read guard is the scrutinee of the match and  *)
(* lives to the end of the match.                                          *)
(***************************************************************************)
AnalyzeFirst(t) ==
    Msg(t, "The save has not been analyzed! Analyze it first with /chunks analyze.",
        << >>)

\* `match &*analyzed_save.read().await`: with Some(save) the position is asked
\* for under the guard (nextPc); with None the task whispers and returns.
ReadGuard(t, atPc, nextPc) ==
    /\ Alive
    /\ pc[t] = atPc
    /\ CanRead(t)
    /\ saveQueue' = Dequeued(t)
    /\ IF IsSome(analyzed_save)
       THEN /\ saveReaders' = saveReaders \cup {t}
            /\ Step(t, nextPc, << >>,
                    <<Call("get_player_position", <<user[t]>>)>>)
       ELSE /\ saveReaders' = saveReaders
            /\ Step(t, "done", <<AnalyzeFirst(t)>>, calls[t])
    /\ UNCHANGED <<mainVars, analyzed_save, disk, user, args, config_read, data,
                   errors, replaced, snapshot,
                   pureVars>>

CntRead(t) == ReadGuard(t, "cnt_read", "cnt_pos")

\* A plausible slip: the read guard outlives the failed command.
PosFails_keeps_guard(t) ==
    /\ \/ /\ Step(t, "failed", << >>, Returned(calls[t], <<"err">>))
          /\ Fail(t, "rpc error")
       \/ /\ Step(t, "failed", << >>, Returned(calls[t], <<"none">>))
          /\ Fail(t, "player has no position")
    /\ saveReaders' = saveReaders

\* get_player_position(..).await?.ok_or(..)? failing: the guards are dropped
\* and the error goes to the spawn wrapper.
PosFails(t) ==
    /\ \/ /\ Step(t, "failed", << >>, Returned(calls[t], <<"err">>))
          /\ Fail(t, "rpc error")
       \/ /\ Step(t, "failed", << >>, Returned(calls[t], <<"none">>))
          /\ Fail(t, "player has no position")
    /\ saveReaders' = saveReaders \ {t}

CntPosReturn(t) ==
    /\ Alive
    /\ pc[t] = "cnt_pos"
    /\ \/ PosFails(t)
       \/ \E pos \in PlayerPositions :
            LET chunk_pos == pos_to_chunk(pos)
                map == Unwrap(analyzed_save).chunk_colliders
            IN  /\ IF chunk_pos \in DOMAIN map
                   THEN Step(t, "done",
                             <<Msg(t,
                                   "There are {} bricks, {} colliders, and {} components in the chunk {:?}.",
                                   << map[chunk_pos][1],
                                      IF map[chunk_pos][2] > COLLIDER_LIMIT
                                      THEN "a00" ELSE "0a0",
                                      map[chunk_pos][2], map[chunk_pos][3],
                                      chunk_pos >>)>>,
                             Returned(calls[t], <<"some", pos>>))
                   ELSE Step(t, "done", <<Msg(t, "This chunk has no bricks or colliders!", << >>)>>,
                             Returned(calls[t], <<"some", pos>>))
                /\ saveReaders' = saveReaders \ {t}
                /\ UNCHANGED errors
    /\ UNCHANGED <<mainVars, saveQueue, analyzed_save, disk, user, args,
                   config_read, data, replaced, snapshot,
                   pureVars>>

MkRead(t) == ReadGuard(t, "mk_read", "mk_pos")

\* mark: the chunk of the player is looked up and its markers are loaded.
MkPosReturn(t) ==
    /\ Alive
    /\ pc[t] = "mk_pos"
    /\ \/ PosFails(t)
       \/ \E pos \in PlayerPositions :
            LET chunk_pos == pos_to_chunk(pos)
                map == Unwrap(analyzed_save).chunk_colliders
                opt == IF chunk_pos \in DOMAIN map
                       THEN Some(map[chunk_pos]) ELSE NoneOpt
                marker_data == mark_chunks(<< <<chunk_pos, opt>> >>)
            IN  /\ Step(t, "mk_load", << >>,
                        Append(Returned(calls[t], <<"some", pos>>),
                               Call("load_save_data",
                                    <<marker_data, TRUE, <<0, 0, 0>> >>)))
                /\ UNCHANGED <<saveReaders, errors>>
    /\ UNCHANGED <<mainVars, saveQueue, analyzed_save, disk, user, args,
                   config_read, data, replaced, snapshot,
                   pureVars>>

\* load_save_data(..).await? returns.
LoadReturn(t, atPc, text) ==
    /\ Alive
    /\ pc[t] = atPc
    /\ \/ /\ Step(t, "failed", << >>, Returned(calls[t], <<"err">>))
          /\ Fail(t, "rpc error")
       \/ /\ Step(t, "done", <<Msg(t, text, << >>)>>,
                  Returned(calls[t], <<"ok">>))
          /\ UNCHANGED errors
    /\ saveReaders' = saveReaders \ {t}
    /\ UNCHANGED <<mainVars, saveQueue, analyzed_save, disk, user, args,
                   config_read, data, replaced, snapshot,
                   pureVars>>

MkLoadReturn(t) == LoadReturn(t, "mk_load", "Your chunk has been marked.")

\* A plausible slip: the whisper of the mark arm copied to markall.
MaLoadReturn_mark_text(t) == LoadReturn(t, "ma_load", "Your chunk has been marked.")

\* markall: with Some(save) every entry of the map, in the map's iteration
\* order, is marked and the markers are loaded under the guard.
MaRead(t) ==
    /\ Alive
    /\ pc[t] = "ma_read"
    /\ CanRead(t)
    /\ saveQueue' = Dequeued(t)
    /\ IF IsSome(analyzed_save)
       THEN LET save == Unwrap(analyzed_save)
                chunks == [i \in 1..Len(save.iter_order) |->
                              << save.iter_order[i],
                                 Some(save.chunk_colliders[save.iter_order[i]]) >>]
                marker_data == mark_chunks(chunks)
            IN  /\ saveReaders' = saveReaders \cup {t}
                /\ Step(t, "ma_load", << >>,
                        <<Call("load_save_data",
                               <<marker_data, TRUE, <<0, 0, 0>> >>)>>)
       ELSE /\ saveReaders' = saveReaders
            /\ Step(t, "done", <<AnalyzeFirst(t)>>, calls[t])
    /\ UNCHANGED <<mainVars, analyzed_save, disk, user, args, config_read, data,
                   errors, replaced, snapshot,
                   pureVars>>

MaLoadReturn(t) == LoadReturn(t, "ma_load", "All chunks have been marked.")

SysNext ==
    \/ \E v \in ConfigValues : MainRecvInit(v)
    \/ MainInitWrite
    \/ MainRecvStop
    \/ \E e \in CommandEvents : MainRecvCommand(e[1], e[2], e[3])
    \/ MainRecvOther
    \/ \E t \in Tasks :
          \/ CfgRead(t)
          \/ AnSaveReturn(t)
          \/ AnSleepReturn(t)
          \/ AnPathReturn(t)
          \/ SaveLockWait(t)
          \/ AnWrite(t)
          \/ InPosReturn(t)
          \/ CntRead(t)
          \/ CntPosReturn(t)
          \/ MkRead(t)
          \/ MkPosReturn(t)
          \/ MkLoadReturn(t)
          \/ MaRead(t)
          \/ MaLoadReturn(t)

Spec == SysInit /\ [][SysNext]_vars

(***************************************************************************)
(* The same program under fair scheduling: the runtime polls every task    *)
(* that can go on, every host call and the sleep return, and both locks    *)
(* serve their waiters first come, first served, so a task that asked for  *)
(* the config read guard is not overtaken for ever by the Init events that *)
(* follow (strong fairness of CfgRead). Which events the host sends is     *)
(* left open.                                                              *)
(***************************************************************************)
TaskNext(t) ==
    \/ CfgRead(t)
    \/ AnSaveReturn(t)
    \/ AnSleepReturn(t)
    \/ AnPathReturn(t)
    \/ SaveLockWait(t)
    \/ AnWrite(t)
    \/ InPosReturn(t)
    \/ CntRead(t)
    \/ CntPosReturn(t)
    \/ MkRead(t)
    \/ MkPosReturn(t)
    \/ MkLoadReturn(t)
    \/ MaRead(t)
    \/ MaLoadReturn(t)

SpecFair ==
    /\ SysInit
    /\ [][SysNext]_vars
    /\ WF_vars(MainInitWrite)
    /\ \A t \in Tasks : WF_vars(TaskNext(t)) /\ SF_vars(CfgRead(t))

(***************************************************************************)
(* Claims about the grid mapper.                                           *)
(***************************************************************************)
Axes == 1..3

\* C1: on every axis pos_to_chunk(p) is the mathematical floor of p / 512:
\* the key c satisfies c * 512 <= p < (c + 1) * 512, also for negative p and
\* for exact multiples of the cell size; (-1,-1,-1) maps to (-1,-1,-1),
\* (0,0,0) to (0,0,0), -512 to -1 and 512 to 1.
C1_PosToChunkIsFloor ==
    gPc # "pos" =>
        /\ \A i \in Axes : (gPos[i] - gKey[i] * CHUNK_SIZE) \in 0..(CHUNK_SIZE - 1)
        /\ gPos = <<-1, -1, -1>> => gKey = <<-1, -1, -1>>
        /\ gPos = Zero3 => gKey = Zero3
        /\ \A i \in Axes : /\ gPos[i] = -512 => gKey[i] = -1
                           /\ gPos[i] = 512 => gKey[i] = 1

C1_Witness ==
    /\ gPc = "key"
    /\ gPos = <<-1, -512, 512>>
    /\ gKey = <<-1, -1, 1>>

\* C10: for every chunk key k in the range where chunk_center does not
\* overflow, pos_to_chunk(chunk_center(k)) = k, and so the centre of that
\* key is chunk_center(k) again; negative keys included.
C10_RoundTrip ==
    gPc \in {"back", "corners"} =>
        /\ gBack = gKey
        /\ chunk_center(gBack) = gCenter

C10_Witness ==
    /\ gPc = "back"
    /\ gKey = <<-1, -2, 1>>
    /\ gCenter = <<-256, -768, 768>>
    /\ gBack = gKey

\* C11: markers never straddle two chunks: for every key k and every corner
\* i in 0..7, chunk_corner(i, chunk_center(k)) lies strictly inside cell k:
\* pos_to_chunk of it is k, and on each axis it is at least one unit away
\* from the faces k * 512 and (k + 1) * 512 of the cell.
C11_CornersInsideCell ==
    gPc = "corners" =>
        \A n \in 1..8 :
            /\ pos_to_chunk(gCorners[n]) = gKey
            /\ \A ax \in Axes :
                  (gCorners[n][ax] - gKey[ax] * CHUNK_SIZE) \in 1..(CHUNK_SIZE - 1)

C11_Witness ==
    /\ gPc = "corners"
    /\ gKey = <<-1, 0, 1>>
    /\ gCorners[1] = <<-511, 1, 513>>
    /\ gCorners[8] = <<-1, 511, 1023>>
    /\ \A n \in 1..8 : pos_to_chunk(gCorners[n]) = gKey

(***************************************************************************)
(* Claims about the aggregator.                                            *)
(***************************************************************************)
\* C2: aggregation is order-independent: a brick list and any permutation of
\* it give the same chunk map, the same keys and the same (object_count,
\* physics_cost, component_cost) triple for each key.
C2_OrderIndependent ==
    aPc = "second" =>
        /\ DOMAIN aOut.chunk_colliders = DOMAIN aOutPerm.chunk_colliders
        /\ \A k \in DOMAIN aOut.chunk_colliders :
              aOut.chunk_colliders[k] = aOutPerm.chunk_colliders[k]

C2_Witness ==
    /\ aPc = "second"
    /\ Len(aData.bricks) = 3
    /\ aPerm.bricks # aData.bricks
    /\ DOMAIN aOut.chunk_colliders = {Zero3, <<-1, -1, -1>>}
    /\ aOut.chunk_colliders[Zero3] = <<2, 4, 2>>
    /\ aOutPerm = aOut

\* The sum of f[x] over the finite set S.
RECURSIVE SetSum(_, _)
SetSum(S, f) ==
    IF S = {} THEN 0
    ELSE LET x == CHOOSE y \in S : TRUE
         IN  f[x] + SetSum(S \ {x}, f)

\* The cost of an asset in the collider table, 1 for an asset absent from it.
TableCost(asset) ==
    IF asset \in DOMAIN BRICK_COLLIDERS THEN BRICK_COLLIDERS[asset] ELSE 1

\* C14: every object contributes to exactly one chunk, the one pos_to_chunk
\* gives for its position: the keys of the aggregate are the chunks of the
\* objects, the object_count values sum to the number of objects, and for
\* each chunk object_count, physics_cost and component_cost are the number,
\* the summed table costs (1 for an asset absent from the table) and the
\* summed component-key counts of exactly the objects in that chunk.
C14_EachObjectInOneChunk ==
    aPc \in {"first", "second"} =>
        LET bricks == aData.bricks
            map == aOut.chunk_colliders
            idx == 1..Len(bricks)
            In(k) == {i \in idx : pos_to_chunk(bricks[i].position) = k}
            cost == [i \in idx |->
                        TableCost(aData.brick_assets[bricks[i].asset_name_index + 1])]
            comps == [i \in idx |-> Cardinality(bricks[i].components)]
        IN  /\ DOMAIN map = {pos_to_chunk(bricks[i].position) : i \in idx}
            /\ SetSum(DOMAIN map, [k \in DOMAIN map |-> map[k][1]]) = Len(bricks)
            /\ \A k \in DOMAIN map :
                  /\ map[k][1] = Cardinality(In(k))
                  /\ map[k][2] = SetSum(In(k), cost)
                  /\ map[k][3] = SetSum(In(k), comps)

C14_Witness ==
    /\ aPc = "first"
    /\ Len(aData.bricks) = 3
    /\ aData.bricks[1].position = <<511, 0, 0>>
    /\ aData.bricks[2].position = <<-1, -1, -1>>
    /\ aData.bricks[3].position = Zero3
    /\ aData.bricks[1].asset_name_index = 0
    /\ aData.bricks[3].asset_name_index = 1
    /\ DOMAIN aOut.chunk_colliders = {Zero3, <<-1, -1, -1>>}
    /\ aOut.chunk_colliders[Zero3] = <<2, 4, 2>>
    /\ aOut.chunk_colliders[<<-1, -1, -1>>][1] = 1

(***************************************************************************)
(* Claims about the marker synthesizer.                                    *)
(***************************************************************************)
\* The tier the policy names for an entry: absent 0, both over 4, components
\* over 3, physics over 2, otherwise 1; over means strictly greater.
PolicyTier(opt) ==
    IF opt = NoneOpt THEN 0
    ELSE IF opt[1][2] > 65000 /\ opt[1][3] > 75 THEN 4
    ELSE IF opt[1][3] > 75 THEN 3
    ELSE IF opt[1][2] > 65000 THEN 2
    ELSE 1

\* The markers of entry j of the list.
MarkersOf(j) == [n \in 1..8 |-> mOut.bricks[8 * (j - 1) + n]]

\* C3: the tier (read off the marker colour) follows the first-match
\* precedence with strict greater-than against the budgets 65000 and 75;
\* a value equal to a budget is not over (physics 65000 is ok, 65001 is
\* physics-over) and present statistics never get tier none.
C3_TierPrecedence ==
    mPc = "done" =>
        \A j \in 1..Len(mChunks) : \A n \in 1..8 :
            LET opt == mChunks[j][2]
                colour == MarkersOf(j)[n].color
            IN  /\ colour = MARKER_COLORS[PolicyTier(opt) + 1]
                /\ opt # NoneOpt => colour # MARKER_COLORS[1]
                /\ (opt # NoneOpt /\ opt[1][2] = 65000 /\ opt[1][3] <= 75)
                      => colour = MARKER_COLORS[2]
                /\ (opt # NoneOpt /\ opt[1][2] = 65001 /\ opt[1][3] <= 75)
                      => colour = MARKER_COLORS[3]

C3_Witness ==
    /\ mPc = "done"
    /\ Len(mChunks) = 2
    /\ mChunks[1][2] = Some(<<1, 65000, 75>>)
    /\ mChunks[2][2] = Some(<<1, 65001, 75>>)
    /\ MarkersOf(1)[1].color = MARKER_COLORS[2]
    /\ MarkersOf(2)[1].color = MARKER_COLORS[3]

\* The sign of corner i (0..7) on an axis: x from bit 0, y from bit 1, z
\* from bit 2 of i.
CornerSign(i, axis) ==
    IF (i \div (2 ^ (axis - 1))) % 2 = 1 THEN 1 ELSE -1

\* C4: n entries give exactly 8 * n markers: for each entry, in input order,
\* 8 consecutive markers of the colour of the entry's tier at the 8 distinct
\* sign-combinations of chunk_center(key) +/- 255, in the CHUNK_CORNERS
\* order; an entry without statistics yields its 8 markers too.
C4_EightMarkersPerEntry ==
    mPc = "done" =>
        /\ Len(mOut.bricks) = 8 * Len(mChunks)
        /\ \A j \in 1..Len(mChunks) :
              LET key == mChunks[j][1]
                  ms == MarkersOf(j)
              IN  /\ \A n \in 1..8 :
                        /\ ms[n].color = MARKER_COLORS[col(mChunks[j][2]) + 1]
                        /\ \A ax \in Axes :
                              ms[n].position[ax] =
                                  (256 + 512 * key[ax]) + CornerSign(n - 1, ax) * 255
                  /\ Cardinality({ms[n].position : n \in 1..8}) = 8

C4_Witness ==
    /\ mPc = "done"
    /\ Len(mChunks) = 2
    /\ mChunks[1] = <<Zero3, NoneOpt>>
    /\ mChunks[2][1] = <<-1, -1, -1>>
    /\ Len(mOut.bricks) = 16
    /\ mOut.bricks[2].position = <<511, 1, 1>>
    /\ mOut.bricks[16].position = <<-1, -1, -1>>

(***************************************************************************)
(* Claims about the commands.                                              *)
(***************************************************************************)
\* The task is suspended in a host call (or in the sleep) that has not returned.
Waiting(t) ==
    /\ calls[t] # << >>
    /\ calls[t][Len(calls[t])].result = <<"pending">>

\* C5: no command holds a guard of the Analysis Store lock while it is
\* suspended in an external blocking call (snapshot trigger, delay, path
\* query, position query, load).
C5_NoStoreLockAcrossExternalCall ==
    \A t \in Tasks : Waiting(t) => t \notin saveReaders

\* The whisper `text` to the user of task t, nothing formatted into it.
Plain(t, text) == [to |-> user[t], text |-> text, arg |-> << >>]

IsCommand(t, name) == args[t] # << >> /\ args[t][1] = name

\* The user's name is in the authorized list the task read, case ignored.
Listed(t) ==
    /\ IsSome(config_read[t])
    /\ \E i \in 1..Len(config_read[t][1].authorized) :
          to_lowercase(config_read[t][1].authorized[i].name) = to_lowercase(user[t])

AnalyzeFirstText ==
    "The save has not been analyzed! Analyze it first with /chunks analyze."

\* C6 as stated: a count command handled while no analyze has completed a
\* replace ends with exactly the "analyze first" whisper to its user, for any
\* user, and with no external call.
C6_CountBeforeAnalyzeAnyUser ==
    \A t \in Tasks :
        (pc[t] \in Finished /\ IsCommand(t, "count") /\ analyzed_save = NoneOpt)
        => /\ msgs[t] = <<Plain(t, AnalyzeFirstText)>>
           /\ calls[t] = << >>
           /\ errors[t] = << >>

\* C6 as amended: a count command of an authorized user, handled with a
\* configuration loaded and while no analyze has completed a replace, makes
\* no external call and ends, without error, with exactly the "analyze
\* first" whisper to its user.
C6_CountBeforeAnalyze ==
    \A t \in Tasks :
        (/\ pc[t] \notin {"unborn", "cfg_read"}
         /\ IsCommand(t, "count")
         /\ Listed(t)
         /\ analyzed_save = NoneOpt)
        => /\ calls[t] = << >>
           /\ errors[t] = << >>
           /\ \/ pc[t] = "cnt_read" /\ msgs[t] = << >>
              \/ pc[t] = "done" /\ msgs[t] = <<Plain(t, AnalyzeFirstText)>>

C6_Witness ==
    \E t \in Tasks :
        /\ pc[t] = "done"
        /\ IsCommand(t, "count")
        /\ user[t] = "Alice"
        /\ Listed(t)
        /\ analyzed_save = NoneOpt
        /\ msgs[t] = <<Plain(t, AnalyzeFirstText)>>

\* C7: a command of a user who is not in the authorized list triggers no
\* host call and no change of the Analysis Store, gets the not-authorized
\* whisper, whatever the subcommand, and ends without error.
C7_UnauthorizedIsRefused ==
    \A t \in Tasks :
        (pc[t] \in Finished /\ IsSome(config_read[t]) /\ ~Listed(t))
        => /\ pc[t] = "done"
           /\ msgs[t] = <<Plain(t, "You are not authorized to use this command!")>>
           /\ calls[t] = << >>
           /\ errors[t] = << >>
           /\ ~replaced[t]

\* C8: no error ends the dispatch loop, and every command that fails reports
\* its failure through a whisper or omegga.error.
C8_NoErrorEndsDispatch ==
    /\ mainPc # "panicked"
    /\ \A t \in Tasks :
          pc[t] \in {"failed", "panicked"} => msgs[t] # << >> \/ errors[t] # << >>

\* C9: an analyze whose snapshot trigger fails, or whose snapshot path is not
\* found, ends there: it has not replaced the Analysis Store, its only
\* whisper is the failure message ("Try again" for the missing path), and it
\* made no further call, so nothing was retried.
C9_AnalyzeAborts ==
    \A t \in Tasks :
        /\ (/\ Len(calls[t]) >= 1
            /\ calls[t][1].op = "save_bricks"
            /\ calls[t][1].result[1] = "err")
           => /\ pc[t] = "done"
              /\ msgs[t] = <<Plain(t, "Failed to save!")>>
              /\ Len(calls[t]) = 1
              /\ errors[t] = << >>
              /\ ~replaced[t]
        /\ (/\ Len(calls[t]) >= 3
            /\ calls[t][3].op = "get_save_path"
            /\ calls[t][3].result[1] \in {"err", "none"})
           => /\ pc[t] = "done"
              /\ msgs[t] = <<Plain(t, "Failed to find save! Try again.")>>
              /\ Len(calls[t]) = 3
              /\ calls[t][1].op = "save_bricks"
              /\ calls[t][2].op = "sleep"
              /\ errors[t] = << >>
              /\ ~replaced[t]

C9_Witness ==
    \E t, o \in Tasks :
        /\ pc[t] = "done"
        /\ Len(calls[t]) = 3
        /\ calls[t][3].result = <<"none">>
        /\ msgs[t] = <<Plain(t, "Failed to find save! Try again.")>>
        /\ pc[o] = "done"
        /\ Len(calls[o]) = 1
        /\ calls[o][1].result = <<"err">>
        /\ msgs[o] = <<Plain(o, "Failed to save!")>>
        /\ analyzed_save = NoneOpt

\* The load-into-world call of a MarkerSave without objects, merge flag true,
\* offset (0,0,0).
EmptyLoad(result) ==
    [op |-> "load_save_data",
     arg |-> <<mark_chunks(<< >>), TRUE, Zero3>>,
     result |-> result]

\* C12: with an AnalysisResult present whose chunk map is empty, a markall of
\* an authorized user (after a clear or not) builds a MarkerSave with zero
\* objects and still issues exactly one load-into-world call, merge flag true
\* and offset (0,0,0); when that call returns Ok the "All chunks have been
\* marked." whisper follows and nothing else (when it returns Err the task
\* ends with the error instead, as for any load).
C12_MarkallOnEmptyAnalysis ==
    \A t \in Tasks :
        /\ (/\ pc[t] = "ma_load"
            /\ IsSome(analyzed_save)
            /\ DOMAIN Unwrap(analyzed_save).chunk_colliders = {})
           => /\ calls[t] = <<EmptyLoad(<<"pending">>)>>
              /\ calls[t][1].arg[1].bricks = << >>
              /\ msgs[t] = << >>
              /\ errors[t] = << >>
        /\ (/\ IsCommand(t, "markall")
            /\ pc[t] \in Finished
            /\ calls[t] # << >>
            /\ calls[t][1].arg[1].bricks = << >>)
           => \/ /\ calls[t] = <<EmptyLoad(<<"ok">>)>>
                 /\ pc[t] = "done"
                 /\ msgs[t] = <<Plain(t, "All chunks have been marked.")>>
                 /\ errors[t] = << >>
              \/ /\ calls[t] = <<EmptyLoad(<<"err">>)>>
                 /\ pc[t] = "failed"
                 /\ msgs[t] = << >>
                 /\ errors[t] # << >>

C12_Witness ==
    \E t, o \in Tasks :
        /\ IsCommand(o, "clear")
        /\ pc[o] = "done"
        /\ calls[o] = <<Sent("clear_bricks", <<MARKER_OWNER_UUID, TRUE>>)>>
        /\ IsCommand(t, "markall")
        /\ Listed(t)
        /\ pc[t] = "done"
        /\ IsSome(analyzed_save)
        /\ DOMAIN Unwrap(analyzed_save).chunk_colliders = {}
        /\ calls[t] = <<EmptyLoad(<<"ok">>)>>
        /\ msgs[t] = <<Plain(t, "All chunks have been marked.")>>

\* ChunkKey order: by x, then y, then z.
KeyLess(a, b) ==
    IF a[1] # b[1] THEN a[1] < b[1]
    ELSE IF a[2] # b[2] THEN a[2] < b[2]
    ELSE a[3] < b[3]

\* The entries of a chunk map in ChunkKey order.
EntriesInKeyOrder(map) ==
    LET o == CHOOSE f \in Orderings(DOMAIN map) :
                 \A i, j \in 1..Cardinality(DOMAIN map) :
                     i < j => KeyLess(f[i], f[j])
    IN  [i \in 1..Cardinality(DOMAIN map) |-> <<o[i], Some(map[o[i]])>>]

\* C13: the markers a markall loads are those of the entries of the current
\* AnalysisResult taken in ChunkKey order (8 per entry, in corner order), so
\* that two markall commands against the same result, or against two
\* analyses of the same world, load the identical sequence.
C13_MarkersInKeyOrder ==
    \A t \in Tasks :
        pc[t] = "ma_load" =>
            calls[t][1].arg[1].bricks =
                mark_chunks(EntriesInKeyOrder(
                    Unwrap(analyzed_save).chunk_colliders)).bricks

\* C15: in every AnalysisResult the Analysis Store holds, every chunk of the
\* map has object_count >= 1: a chunk without objects is absent from the
\* map, never stored with zero counts.
C15_NoEmptyChunkStored ==
    IsSome(analyzed_save) =>
        \A k \in DOMAIN Unwrap(analyzed_save).chunk_colliders :
            Unwrap(analyzed_save).chunk_colliders[k][1] >= 1

C15_Witness ==
    /\ IsSome(analyzed_save)
    /\ DOMAIN Unwrap(analyzed_save).chunk_colliders = {Zero3, <<-1, -1, -1>>}
    /\ Unwrap(analyzed_save).chunk_colliders[Zero3][1] = 2
    /\ Unwrap(analyzed_save).chunk_colliders[<<-1, -1, -1>>][1] = 1
    /\ <<1, 0, 0>> \notin DOMAIN Unwrap(analyzed_save).chunk_colliders

\* The subcommands of the command surface.
KnownSubcommands == {"analyze", "in", "count", "mark", "markall", "clear"}

\* The first argument of the command of task t is no subcommand as typed.
UnknownCommand(t) == args[t] # << >> /\ args[t][1] \notin KnownSubcommands

\* The "unknown subcommand" whisper to the user of t, naming what was typed.
UnknownText(t) ==
    [to |-> user[t], text |-> "Unknown subcommand {}.", arg |-> <<args[t][1]>>]

\* C16 as stated: a command whose first argument is none of the six
\* subcommands (case-sensitive) ends with the "unknown subcommand" whisper to
\* the invoking user, whoever that is, never silently, with no external call
\* and the Analysis Store untouched.
C16_UnknownIsReportedToAnyUser ==
    \A t \in Tasks :
        (pc[t] \in Finished /\ UnknownCommand(t))
        => /\ msgs[t] = <<UnknownText(t)>>
           /\ calls[t] = << >>
           /\ ~replaced[t]

\* C16 as amended: the same of a command of an authorized user handled with
\* a configuration loaded.
C16_UnknownIsReported ==
    \A t \in Tasks :
        (/\ pc[t] \notin {"unborn", "cfg_read"}
         /\ UnknownCommand(t)
         /\ Listed(t))
        => /\ pc[t] = "done"
           /\ msgs[t] = <<UnknownText(t)>>
           /\ calls[t] = << >>
           /\ errors[t] = << >>
           /\ ~replaced[t]
           /\ t \notin saveReaders
           /\ ~InQueue(t)

C16_Witness ==
    \E t \in Tasks :
        /\ pc[t] = "done"
        /\ args[t] = <<"Count">>
        /\ user[t] = "Alice"
        /\ Listed(t)
        /\ msgs[t] = <<UnknownText(t)>>
        /\ calls[t] = << >>

\* The position query of the command of task t returned no position or failed.
PositionFailed(t) ==
    /\ calls[t] # << >>
    /\ calls[t][Len(calls[t])].op = "get_player_position"
    /\ calls[t][Len(calls[t])].result[1] \in {"err", "none"}

\* C17: when the position query of in, count or mark (the latter two with an
\* analysis present) returns no position or fails, the command ends with an
\* error that the spawn wrapper reports through omegga.error: no
\* load-into-world call was issued, no whisper was sent, the command has not
\* replaced the Analysis Store, which still holds an analysis if the command
\* read one, and the command holds no guard of either lock any more.
C17_MissingPositionIsReported ==
    \A t \in Tasks :
        PositionFailed(t)
        => /\ pc[t] = "failed"
           /\ IsCommand(t, "in") \/ IsCommand(t, "count") \/ IsCommand(t, "mark")
           /\ Len(errors[t]) = 1
           /\ errors[t][1] \in {"rpc error", "player has no position"}
           /\ msgs[t] = << >>
           /\ Len(calls[t]) = 1
           /\ ~replaced[t]
           /\ ~IsCommand(t, "in") => IsSome(analyzed_save)
           /\ t \notin saveReaders
           /\ t \notin cfgReaders
           /\ ~InQueue(t)

C17_Witness ==
    \E t, o \in Tasks :
        /\ IsCommand(t, "count")
        /\ IsCommand(o, "mark")
        /\ PositionFailed(t)
        /\ PositionFailed(o)
        /\ calls[t][1].result = <<"none">>
        /\ calls[o][1].result = <<"err">>
        /\ errors[t] = <<"player has no position">>
        /\ IsSome(analyzed_save)
        /\ saveReaders = {}

\* The step is the replace of the analyze of task t.
Replaces(t) == pc[t] = "an_write" /\ pc'[t] = "done"

\* The value is none, or the complete aggregate of one snapshot.
WholeResult(v) ==
    \/ v = NoneOpt
    \/ \E w \in Worlds :
          /\ Unwrap(v).chunk_colliders = From(w).chunk_colliders
          /\ Unwrap(v).iter_order \in Orderings(DOMAIN From(w).chunk_colliders)

\* C18: reader/writer exclusion and whole-result replacement of the Analysis
\* Store in every step of every interleaving: a replace happens only while no
\* reader (count, mark, markall) is inside its lookup, and no two replaces
\* happen at once; a replace stores the complete aggregate of the one
\* snapshot the analyze read; the store changes by a replace only, and never
\* while a reader holds it, so what a reader observes is none (the initial
\* value) or the complete aggregate of one snapshot; and the store, once it holds a result, holds
\* that result until a later replace, so a read that starts after a replace
\* observes that result or a later one.
C18_StoreExclusion ==
    [][ /\ \A t \in Tasks :
              Replaces(t)
              => /\ saveReaders = {}
                 /\ saveReaders' = {}
                 /\ \A o \in Tasks \ {t} : ~Replaces(o)
                 /\ Unwrap(data[t]) \in Worlds
                 /\ IsSome(analyzed_save')
                 /\ Unwrap(analyzed_save').chunk_colliders =
                        From(Unwrap(data[t])).chunk_colliders
        /\ analyzed_save' # analyzed_save
              => /\ \E t \in Tasks : Replaces(t)
                 /\ WholeResult(analyzed_save')
        /\ (saveReaders # {} \/ saveReaders' # {})
              => /\ analyzed_save' = analyzed_save
                 /\ IsSome(analyzed_save)
        /\ IsSome(analyzed_save) => IsSome(analyzed_save')
      ]_vars

\* A reader is inside its lookup while an analyze waits, first in the queue
\* of the lock, to replace a result with the aggregate of another snapshot.
C18_Witness ==
    \E t, o \in Tasks :
        /\ pc[t] = "an_write"
        /\ saveQueue = <<t>>
        /\ o \in saveReaders
        /\ pc[o] = "ma_load"
        /\ IsSome(analyzed_save)
        /\ Unwrap(analyzed_save).chunk_colliders # From(Unwrap(data[t])).chunk_colliders

\* C19: an analyze that is about to replace the Analysis Store holds the
\* snapshot its own save_bricks wrote, also while another analyze runs: the
\* shared snapshot name and the fixed delay never make it store the aggregate
\* of the other command's snapshot.
C19_AnalyzeStoresOwnSnapshot ==
    \A t \in Tasks :
        pc[t] = "an_write" =>
            From(Unwrap(data[t])).chunk_colliders =
                From(Unwrap(snapshot[t])).chunk_colliders

\* The command task t has been spawned and has not ended.
Running(t) == pc[t] \notin Finished \cup {"unborn"}

\* C20: under fair scheduling, with every host call returning, every command
\* task that was spawned eventually ends (returns, fails or panics), and an
\* Init event waiting for the config write guard is eventually processed;
\* a task that has ended holds no guard of either lock and waits for none.
C20_EveryCommandEnds ==
    /\ \A t \in Tasks : Running(t) ~> ~Running(t)
    /\ (mainPc = "init_wait") ~> (mainPc = "recv")
    /\ [](\A t \in Tasks :
             ~Running(t) => /\ t \notin cfgReaders
                            /\ t \notin saveReaders
                            /\ ~InQueue(t))

====
